---- MODULE Spec2Model ----
(***************************************************************************)
(* miles.py: a one-page crawler.  extract_urls scans the fetched page with *)
(* the FILE_REGEX patterns of the requested file types, download_url       *)
(* fetches one url and writes it under the destination, and crawl maps     *)
(* download_url over the extracted urls on a ProcessPoolExecutor(cpus) and *)
(* prints the totals.                                                      *)
(***************************************************************************)
EXTENDS Integers, Sequences, FiniteSets, TLC

VARIABLES
    base,        \* the base argument of a resolve_url call
    cand,        \* the url argument of that call
    resolved,    \* what the call returned (<<>> before it returns)
    hung,        \* the future whose requests.get never returns (0: none)
    page,        \* response.text of the base page: a sequence of lines of tags
    file_types,  \* the file_types argument of extract_urls / crawl
    cpus,        \* the cpus argument of crawl
    gen,         \* the extract_urls generator objects: state of each
    outs,        \* what each generator has yielded so far, in order
    pc,          \* position of the main process inside crawl
    tasks,       \* the futures of executor.map, in submission order
    next_result, \* index of the future whose result map's iterator yields next
    files,       \* the list built on line 118
    exc,         \* the exception propagating out of crawl ("" when none)
    store,       \* the destination directory: a set of files
    now,         \* the wall clock read by time.time()
    start,       \* line 114
    end,         \* line 119
    report       \* the lines printed on 124-127 (<<>> before they are printed)

vars == <<base, cand, resolved, hung, page, file_types, cpus, gen, outs, pc,
          tasks, next_result, files, exc, store, now, start, end, report>>

crawlVars == <<cpus, pc, tasks, next_result, files, exc, store, now, start,
               end, report>>

\* --------------------------------------------------------------- bounds
MaxTags       == 3   \* tags of a page given to extract_urls alone
MaxLinks      == 2   \* tags of a page given to crawl
MaxP          == 2   \* largest cpus
MaxClock      == 1   \* clock ticks observed during one crawl

\* ------------------------------------------------------------ constants
\* concurrent.futures.process.EXTRA_QUEUED_CALLS: the call queue of a
\* ProcessPoolExecutor(cpus) holds cpus + 1 work items.
EXTRA_QUEUED_CALLS == 1

\* ------------------------------------------------------------- helpers
Min(S) == CHOOSE x \in S : \A y \in S : x <= y
Max(S) == CHOOSE x \in S : \A y \in S : x >= y

RECURSIVE SumSeq(_)
SumSeq(s) == IF s = <<>> THEN 0 ELSE Head(s) + SumSeq(Tail(s))

SeqsUpTo(S, n) == UNION {[1..k -> S] : k \in 0..n}

\* ---------------------------------------------------------------- urls
\* A reference as written in the page, in the parts urlparse gives it:
\* scheme ("" when it has none), host (the authority, "" when it has none),
\* rooted (its path starts with '/'), path (the segments of the path) and
\* ext, the three letters it ends with.
Ref(s, h, r, p, e) ==
    [scheme |-> s, host |-> h, rooted |-> r, path |-> p, ext |-> e]

\* A url in the parts urlunparse puts together.
Url(s, h, p) == [scheme |-> s, host |-> h, path |-> p]

\* A base url: scheme, authority and the segments of the directory its path
\* names (the path up to its last '/').
Base(s, h, d) == [scheme |-> s, host |-> h, dir |-> d]

\* The url of the page that is crawled, 'https://s/p/'.
BaseUrl == Base("https", "s", <<"p">>)

\* The base glued in front of the reference, whatever the reference is.
ResolveUrlConcat(b, ref) == Url(b.scheme, b.host, b.dir \o ref.path)

\* resolve_url: urljoin(base, url).  A reference with a scheme other than
\* the base's is returned as it is; otherwise the result has the base's
\* scheme, and the reference's authority and path when it has an authority,
\* else the base's authority with the reference's path when that is rooted
\* and the base's directory followed by the reference's path when it is
\* not.  All schemes here are ones urljoin treats as hierarchical.
ResolveUrl(b, ref) ==
    IF ref.scheme # "" /\ ref.scheme # b.scheme
    THEN Url(ref.scheme, ref.host, ref.path)
    ELSE IF ref.host # ""
    THEN Url(b.scheme, ref.host, ref.path)
    ELSE IF ref.rooted
    THEN Url(b.scheme, b.host, ref.path)
    ELSE Url(b.scheme, b.host, b.dir \o ref.path)

\* os.path.basename(url): the final path segment.
Basename(url) == url.path[Len(url.path)]

\* response.content of a successful GET of url: the body the server holds
\* for that resource.  Different urls have different bodies, and bodies of
\* different depth have different lengths.
Body(url) == <<url.host>> \o url.path

\* ------------------------------------------------------ the regex table
FileTypes == {"jpg", "mp3", "pdf", "png"}

Regex(o, a, e) == [open |-> o, attr |-> a, ext |-> e]

FILE_REGEX ==
    [jpg |-> <<Regex("<img", "src", "jpg"), Regex("<a", "href", "jpg")>>,
     mp3 |-> <<Regex("<audio", "src", "mp3"), Regex("a", "href", "mp3")>>,
     pdf |-> <<Regex("<a", "href", "pdf")>>,
     png |-> <<Regex("<img", "src", "png"), Regex("<a", "href", "png")>>]

\* Whether the literal that opens a pattern occurs at the start of a tag
\* <el ...>: '<a' is also a prefix of '<audio', and the mp3 pattern that
\* lacks the '<' matches the letter a of both.
Opens(open, el) ==
    CASE open = "<img"   -> el = "img"
      [] open = "<audio" -> el = "audio"
      [] open = "<a"     -> el \in {"a", "audio"}
      [] open = "a"      -> el \in {"a", "audio"}

\* One line of the page against one pattern  open.*attr="?([^" ]+.ext) :
\* the match starts at the leftmost opener, the greedy .* runs to the end of
\* the line and backtracks to the last attr=...ext after the opener, so a
\* line gives at most one match: the index of the captured tag, or 0.
LineMatch(regex, line) ==
    LET starts == {i \in DOMAIN line : Opens(regex.open, line[i].el)}
    IN  IF starts = {} THEN 0
        ELSE LET cands == {j \in Min(starts)..Len(line) :
                              /\ line[j].attr = regex.attr
                              /\ line[j].ref.ext = regex.ext}
             IN  IF cands = {} THEN 0 ELSE Max(cands)

\* The matches of lines k down to 1, the last line first.
RECURSIVE FindAllMirror(_, _, _)
FindAllMirror(regex, pg, k) ==
    IF k < 1 THEN <<>>
    ELSE LET j == LineMatch(regex, pg[k])
         IN  (IF j = 0 THEN <<>> ELSE <<[ref |-> pg[k][j].ref, line |-> k]>>)
             \o FindAllMirror(regex, pg, k - 1)

\* re.findall(regex, response.text) from line k on: the captured
\* references in textual order ('.' does not cross a newline), each with the
\* line it was found on.
RECURSIVE FindAllFrom(_, _, _)
FindAllFrom(regex, pg, k) ==
    IF k > Len(pg) THEN <<>>
    ELSE LET j == LineMatch(regex, pg[k])
         IN  (IF j = 0 THEN <<>> ELSE <<[ref |-> pg[k][j].ref, line |-> k]>>)
             \o FindAllFrom(regex, pg, k + 1)

FindAllReversed(regex, pg) == FindAllMirror(regex, pg, Len(pg))

\* The matches ms without those whose reference is in seen or occurs
\* earlier in ms.
RECURSIVE Dedup(_, _)
Dedup(ms, seen) ==
    IF ms = <<>> THEN <<>>
    ELSE IF Head(ms).ref \in seen THEN Dedup(Tail(ms), seen)
    ELSE <<Head(ms)>> \o Dedup(Tail(ms), seen \cup {Head(ms).ref})

\* A findall that gives every captured reference once.
FindAllDedup(regex, pg) == Dedup(FindAllFrom(regex, pg, 1), {})

FindAll(regex, pg) == FindAllFrom(regex, pg, 1)

\* ------------------------------------------------- the generator object
GenNew == [st |-> "new", ft |-> 0, rx |-> 0, ms |-> <<>>]
GenEnd == [st |-> "end", ft |-> 0, rx |-> 0, ms |-> <<>>]

\* One next() of a started generator whose loops stand at file type ft,
\* pattern rx, with ms the matches of that pattern not yet yielded: run to
\* the next yield (lines 70-73) or to the end of the loops.  The result is
\* the generator's new state and, in out, the value yielded (none at
\* StopIteration), tagged with the loop position that produced it.
RECURSIVE Advance(_, _, _, _, _)
Advance(pg, fts, ft, rx, ms) ==
    IF ms # <<>>
    THEN [g   |-> [st |-> "run", ft |-> ft, rx |-> rx, ms |-> Tail(ms)],
          out |-> <<[url  |-> ResolveUrl(BaseUrl, Head(ms).ref),
                     ft   |-> ft, rx |-> rx, line |-> Head(ms).line]>>]
    ELSE IF ft >= 1 /\ rx < Len(FILE_REGEX[fts[ft]])
    THEN Advance(pg, fts, ft, rx + 1,
                 FindAll(FILE_REGEX[fts[ft]][rx + 1], pg))
    ELSE IF ft < Len(fts)
    THEN Advance(pg, fts, ft + 1, 1, FindAll(FILE_REGEX[fts[ft + 1]][1], pg))
    ELSE [g |-> GenEnd, out |-> <<>>]

\* Every match of the page, for file type ft from pattern rx on and for the
\* file types after it, each with the loop position that finds it.
RECURSIVE AllMatchesFrom(_, _, _, _)
AllMatchesFrom(pg, fts, ft, rx) ==
    IF ft > Len(fts) THEN <<>>
    ELSE IF rx > Len(FILE_REGEX[fts[ft]])
    THEN AllMatchesFrom(pg, fts, ft + 1, 1)
    ELSE LET ms == FindAllFrom(FILE_REGEX[fts[ft]][rx], pg, 1)
         IN  [i \in DOMAIN ms |-> [ref |-> ms[i].ref, line |-> ms[i].line,
                                   ft |-> ft, rx |-> rx]]
             \o AllMatchesFrom(pg, fts, ft, rx + 1)

\* An extractor that builds the list of all matches at its first next()
\* and hands it out one by one.
GenNextEager(pg, fts, g) ==
    LET ms == IF g.ft = 0 THEN AllMatchesFrom(pg, fts, 1, 1) ELSE g.ms
    IN  IF g.st = "end" \/ ms = <<>> THEN [g |-> GenEnd, out |-> <<>>]
        ELSE [g   |-> [st |-> "run", ft |-> Head(ms).ft, rx |-> Head(ms).rx,
                       ms |-> Tail(ms)],
              out |-> <<[url  |-> ResolveUrl(BaseUrl, Head(ms).ref),
                         ft   |-> Head(ms).ft, rx |-> Head(ms).rx,
                         line |-> Head(ms).line]>>]

\* next(generator) once the page has been fetched (or on a later call).
GenNext(pg, fts, g) ==
    IF g.st = "end" THEN [g |-> GenEnd, out |-> <<>>]
    ELSE Advance(pg, fts, g.ft, g.rx, g.ms)

\* ------------------------------------------------------------- inputs
Tag(el, attr, ref) == [el |-> el, attr |-> attr, ref |-> ref]

RefX  == Ref("", "", FALSE, <<"x.jpg">>, "jpg")
RefDX == Ref("", "", FALSE, <<"d", "x.jpg">>, "jpg")
RefY  == Ref("", "", FALSE, <<"y.pdf">>, "pdf")
RefZ  == Ref("https", "o", TRUE, <<"z.jpg">>, "jpg")

\* Tags of the pages given to crawl: two jpg references that share their
\* final path segment, and a pdf.
CrawlTags == {Tag("img", "src", RefX), Tag("a", "href", RefDX),
              Tag("a", "href", RefY)}

\* Tags of the pages given to extract_urls alone.
ExtractTags == CrawlTags \cup {Tag("img", "src", RefZ), Tag("a", "href", RefX)}

\* The text s cut into lines after the positions in cuts.
RECURSIVE Split(_, _, _)
Split(s, cuts, from) ==
    IF from > Len(s) THEN <<>>
    ELSE LET stops == {c \in cuts : c >= from} \cup {Len(s)}
             to    == Min(stops)
         IN  <<SubSeq(s, from, to)>> \o Split(s, cuts, to + 1)

\* Pages of at most n tags, on any number of lines.
PagesOf(tags, n) ==
    {Split(s, cuts, 1) : s \in SeqsUpTo(tags, n), cuts \in SUBSET (1..(n - 1))}

CrawlPages   == PagesOf(CrawlTags, MaxLinks)
ExtractPages == PagesOf(ExtractTags, MaxTags)

CrawlFileTypes   == {<<"jpg">>, <<"jpg", "pdf">>}
ExtractFileTypes == {<<"jpg">>, <<"pdf", "jpg">>, <<"jpg", "pdf">>,
                     <<"jpg", "jpg">>, <<"png", "mp3">>}

Gens == {1, 2}

\* ------------------------------------------------- extract_urls alone
\* Two generator objects made from the same url and file_types, each pulled
\* by its own consumer; the page has been fetched with success.
InitExtract ==
    /\ base = BaseUrl
    /\ cand = RefX
    /\ resolved = <<>>
    /\ hung = 0
    /\ page \in ExtractPages
    /\ file_types \in ExtractFileTypes
    /\ gen = [g \in Gens |-> GenNew]
    /\ outs = [g \in Gens |-> <<>>]
    /\ cpus = 1
    /\ pc = "idle"
    /\ tasks = <<>>
    /\ next_result = 1
    /\ files = <<>>
    /\ exc = ""
    /\ store = {}
    /\ now = 0
    /\ start = 0
    /\ end = 0
    /\ report = <<>>

Pull(g) ==
    /\ gen[g].st # "end"
    /\ LET r == GenNext(page, file_types, gen[g])
       IN  /\ gen' = [gen EXCEPT ![g] = r.g]
           /\ outs' = [outs EXCEPT ![g] = outs[g] \o
                          [i \in 1..Len(r.out) |-> r.out[i]]]
    /\ UNCHANGED <<base, cand, resolved, hung, page, file_types>>
    /\ UNCHANGED crawlVars

NextExtract == \E g \in Gens : Pull(g)

SpecExtract == InitExtract /\ [][NextExtract]_vars

\* ------------------------------------------------ the destination store
\* A download that never replaces a file: the new file is made next to the
\* one that is there.
OpenKeepOld(st, name) == st \cup {[name |-> name, content |-> <<>>]}

\* open(file=local_path, mode='wb'): the file of that name is created, or
\* truncated when it exists.
OpenWb(st, name) ==
    {f \in st : f.name # name} \cup {[name |-> name, content |-> <<>>]}

\* stream.write(response.content) on a stream opened at offset 0: the body
\* replaces the first Len(body) bytes of whatever the file holds by then.
WriteAt0(st, name, body) ==
    {IF f.name = name
     THEN [f EXCEPT !.content =
              body \o SubSeq(f.content, Len(body) + 1, Len(f.content))]
     ELSE f : f \in st}

Names(st) == {f.name : f \in st}

\* os.stat(file).st_size
StatSize(st, name) == Len((CHOOSE f \in st : f.name = name).content)

\* --------------------------------------------------------- the futures
Running(ts)   == {t \in DOMAIN ts : ts[t].st \in {"fetch", "open", "write"}}
Queued(ts)    == {t \in DOMAIN ts : ts[t].st = "queued"}
Pending(ts)   == {t \in DOMAIN ts : ts[t].st = "pending"}
Finished      == {"ok", "none", "raised", "cancelled"}

\* ProcessPoolExecutor(cpus + 1): one worker too many.
PoolSizeOneMore == cpus + 1

\* A pool that runs one worker process whatever cpus is.
PoolSizeSingle == Min({cpus, 1})

\* ProcessPoolExecutor(cpus): the number of worker processes.
PoolSize == cpus


\* What future.result() returns for a finished download: the local path
\* (the destination joined with the name), or None.
ResultOf(task) == IF task.st = "ok" THEN Basename(task.url) ELSE "None"

\* `if file` on line 118 keeps every result.
TruthyAlways(result) == TRUE

\* `if file` on line 118: a path is a non-empty string, None is falsy.
Truthy(result) == result # "None"

\* What the destination directory holds before the crawl: nothing, or an
\* older and longer x.jpg.
InitialStores ==
    {{}, {[name |-> "x.jpg", content |-> <<"old", "old", "old", "old", "old">>]}}

\* ---------------------------------------------------------------- crawl
Init ==
    /\ base = BaseUrl
    /\ cand = RefX
    /\ resolved = <<>>
    /\ hung = 0
    /\ page \in CrawlPages
    /\ file_types \in CrawlFileTypes
    /\ cpus \in 1..MaxP
    /\ gen = [g \in Gens |-> GenNew]
    /\ outs = [g \in Gens |-> <<>>]
    /\ pc = "l114"
    /\ tasks = <<>>
    /\ next_result = 1
    /\ files = <<>>
    /\ exc = ""
    /\ store \in InitialStores
    /\ now = 0
    /\ start = 0
    /\ end = 0
    /\ report = <<>>

\* time.time() is the wall clock: it may or may not have moved between two
\* readings.  Only the readings of lines 114 and 119 are used.
Tick ==
    /\ pc \notin {"l114", "l121", "done", "raised"}
    /\ now < MaxClock
    /\ now' = now + 1
    /\ UNCHANGED <<base, cand, resolved, hung, page, file_types, cpus, gen,
                   outs, pc, tasks, next_result, files, exc, store, start,
                   end, report>>

\* Lines 114-117: the clock is read, the pool, the generator object and the
\* repeat object are made.  Nothing of the generator's body has run yet.
ReadStart ==
    /\ pc = "l114"
    /\ start' = now
    /\ pc' = "map"
    /\ UNCHANGED <<base, cand, resolved, hung, page, file_types, cpus, gen,
                   outs, tasks, next_result, files, exc, store, now, end,
                   report>>

\* A crawl that reads its first clock value once the page is there.
PageFetchOkThenStart ==
    /\ pc = "map"
    /\ gen[1].st = "new"
    /\ gen' = [gen EXCEPT ![1] = [st |-> "run", ft |-> 0, rx |-> 0, ms |-> <<>>]]
    /\ start' = now
    /\ UNCHANGED <<base, cand, resolved, hung, page, file_types, cpus, outs,
                   pc, tasks, next_result, files, exc, store, now, end, report>>

\* Line 118, first next() of the generator, lines 66-68: the page is fetched.
PageFetchOk ==
    /\ pc = "map"
    /\ gen[1].st = "new"
    /\ gen' = [gen EXCEPT ![1] = [st |-> "run", ft |-> 0, rx |-> 0, ms |-> <<>>]]
    /\ UNCHANGED <<base, cand, resolved, hung, page, file_types, outs>>
    /\ UNCHANGED crawlVars

\* requests.get raises (transport), or the response is falsy and exit(5)
\* raises SystemExit, inside executor.map; the with block shuts the pool down.
PageFetchFail ==
    /\ pc = "map"
    /\ gen[1].st = "new"
    /\ \E e \in {"SystemExit", "ConnectionError"} : exc' = e
    /\ gen' = [gen EXCEPT ![1] = GenEnd]
    /\ pc' = "shutdown"
    /\ UNCHANGED <<base, cand, resolved, hung, page, file_types, cpus, outs,
                   tasks, next_result, files, store, now, start, end, report>>

\* Executor.map, fs = [self.submit(fn, *args) for args in zip(*iterables)]:
\* one next() of the generator and, when it yields, one submit; when it is
\* exhausted the list is complete and the results are iterated.
Submit ==
    /\ pc = "map"
    /\ gen[1].st = "run"
    /\ LET r == GenNext(page, file_types, gen[1])
       IN  /\ gen' = [gen EXCEPT ![1] = r.g]
           /\ IF r.out # <<>>
              THEN /\ outs' = [outs EXCEPT ![1] = Append(outs[1], r.out[1])]
                   /\ tasks' = Append(tasks, [url   |-> r.out[1].url,
                                              st    |-> "pending",
                                              wrote |-> {}])
                   /\ pc' = pc
              ELSE /\ pc' = "results"
                   /\ UNCHANGED <<outs, tasks>>
    /\ UNCHANGED <<base, cand, resolved, hung, page, file_types, cpus,
                   next_result, files, exc, store, now, start, end, report>>

SetTask(t, st) ==
    /\ tasks' = [tasks EXCEPT ![t].st = st]
    /\ UNCHANGED <<base, cand, resolved, hung, page, file_types, cpus, gen,
                   outs, pc, next_result, files, exc, store, now, start, end,
                   report>>

\* A manager thread that takes the newest pending work item first.
PrefetchNewest(t) ==
    /\ t \in Pending(tasks)
    /\ t = Max(Pending(tasks))
    /\ Cardinality(Queued(tasks)) < cpus + EXTRA_QUEUED_CALLS
    /\ SetTask(t, "queued")

\* The executor's manager thread moves the oldest pending work item into the
\* call queue; from then on its future cannot be cancelled.
Prefetch(t) ==
    /\ t \in Pending(tasks)
    /\ t = Min(Pending(tasks))
    /\ Cardinality(Queued(tasks)) < cpus + EXTRA_QUEUED_CALLS
    /\ SetTask(t, "queued")

\* A free worker process takes the oldest call item and enters download_url
\* (line 87).
StartDownload(t) ==
    /\ t \in Queued(tasks)
    /\ t = Min(Queued(tasks))
    /\ Cardinality(Running(tasks)) < PoolSize
    /\ SetTask(t, "fetch")

\* Lines 89-91: the GET returns a success status.
FetchOk(t) ==
    /\ t \in DOMAIN tasks
    /\ t # hung
    /\ tasks[t].st = "fetch"
    /\ SetTask(t, "open")

\* A download_url that opens its file before the GET: the failed fetch
\* leaves the created or truncated file behind.
FetchFailAfterOpen(t) ==
    /\ t \in DOMAIN tasks
    /\ t # hung
    /\ tasks[t].st = "fetch"
    /\ store' = OpenWb(store, Basename(tasks[t].url))
    /\ tasks' = [tasks EXCEPT ![t].st = "none",
                              ![t].wrote = @ \cup {Basename(tasks[t].url)}]
    /\ UNCHANGED <<base, cand, resolved, hung, page, file_types, cpus, gen,
                   outs, pc, next_result, files, exc, now, start, end,
                   report>>

\* Lines 92-93: RequestException, download_url returns None.
FetchFail(t) ==
    /\ t \in DOMAIN tasks
    /\ t # hung
    /\ tasks[t].st = "fetch"
    /\ SetTask(t, "none")

\* Lines 95-97: the file is opened for writing.
OpenOk(t) ==
    /\ t \in DOMAIN tasks
    /\ tasks[t].st = "open"
    /\ store' = OpenWb(store, Basename(tasks[t].url))
    /\ tasks' = [tasks EXCEPT ![t].st = "write",
                              ![t].wrote = @ \cup {Basename(tasks[t].url)}]
    /\ UNCHANGED <<base, cand, resolved, hung, page, file_types, cpus, gen,
                   outs, pc, next_result, files, exc, now, start, end,
                   report>>

\* Line 97: open raises OSError; nothing catches it in download_url, so the
\* future holds the exception.
OpenFail(t) ==
    /\ t \in DOMAIN tasks
    /\ tasks[t].st = "open"
    /\ SetTask(t, "raised")

\* Lines 98-100: the body is written, the stream closed, the path returned.
WriteOk(t) ==
    /\ t \in DOMAIN tasks
    /\ tasks[t].st = "write"
    /\ store' = WriteAt0(store, Basename(tasks[t].url), Body(tasks[t].url))
    /\ tasks' = [tasks EXCEPT ![t].st = "ok",
                              ![t].wrote = @ \cup {Basename(tasks[t].url)}]
    /\ UNCHANGED <<base, cand, resolved, hung, page, file_types, cpus, gen,
                   outs, pc, next_result, files, exc, now, start, end,
                   report>>

\* Line 98: write raises OSError; the file stays as open left it.
WriteFail(t) ==
    /\ t \in DOMAIN tasks
    /\ tasks[t].st = "write"
    /\ SetTask(t, "raised")

\* Line 118, one step of the list comprehension over map's result iterator:
\* the results come in submission order, each waited for.  A result that is
\* an exception is raised here: the iterator's finally clause cancels the
\* futures still pending and the with block shuts the pool down.
Result ==
    /\ pc = "results"
    /\ IF next_result > Len(tasks)
       THEN /\ pc' = "shutdown"
            /\ UNCHANGED <<tasks, next_result, files, exc>>
       ELSE /\ tasks[next_result].st \in {"ok", "none", "raised"}
            /\ next_result' = next_result + 1
            /\ IF tasks[next_result].st = "raised"
               THEN /\ exc' = "OSError"
                    /\ tasks' = [t \in DOMAIN tasks |->
                                    IF tasks[t].st = "pending"
                                    THEN [tasks[t] EXCEPT !.st = "cancelled"]
                                    ELSE tasks[t]]
                    /\ pc' = "shutdown"
                    /\ files' = files
               ELSE /\ files' = IF Truthy(ResultOf(tasks[next_result]))
                                THEN Append(files, ResultOf(tasks[next_result]))
                                ELSE files
                    /\ UNCHANGED <<tasks, exc, pc>>
    /\ UNCHANGED <<base, cand, resolved, hung, page, file_types, cpus, gen,
                   outs, store, now, start, end, report>>

\* Executor.__exit__: shutdown(wait=True) returns when every work item that
\* was not cancelled has finished; then the exception, if any, leaves crawl.
Shutdown ==
    /\ pc = "shutdown"
    /\ \A t \in DOMAIN tasks : tasks[t].st \in Finished
    /\ pc' = IF exc = "" THEN "l119" ELSE "raised"
    /\ UNCHANGED <<base, cand, resolved, hung, page, file_types, cpus, gen,
                   outs, tasks, next_result, files, exc, store, now, start,
                   end, report>>

\* Line 119.
ReadEnd ==
    /\ pc = "l119"
    /\ end' = now
    /\ pc' = "l121"
    /\ UNCHANGED <<base, cand, resolved, hung, page, file_types, cpus, gen,
                   outs, tasks, next_result, files, exc, store, now, start,
                   report>>

\* Line 121, without the division by 2^20: the sizes the files have now.
BytesOf(st, fs) == SumSeq([i \in DOMAIN fs |-> StatSize(st, fs[i])])

\* Lines 121-127: the totals are computed and printed; the division on line
\* 123 raises ZeroDivisionError when the two clock readings are equal.
Report ==
    /\ pc = "l121"
    /\ IF end - start = 0
       THEN /\ exc' = "ZeroDivisionError"
            /\ pc' = "raised"
            /\ report' = report
       ELSE /\ report' = <<[files     |-> Len(files),
                            bytes     |-> BytesOf(store, files),
                            elapsed   |-> end - start,
                            bandwidth |-> BytesOf(store, files) \div (end - start)]>>
            /\ pc' = "done"
            /\ exc' = exc
    /\ UNCHANGED <<base, cand, resolved, hung, page, file_types, cpus, gen,
                   outs, tasks, next_result, files, store, now, start, end>>

\* The futures are numbered in submission order; crawl submits one per tag
\* of the page at most.
Futures == 1..MaxLinks

Next ==
    \/ Tick
    \/ ReadStart
    \/ PageFetchOk
    \/ PageFetchFail
    \/ Submit
    \/ \E t \in Futures : Prefetch(t)
    \/ \E t \in Futures : StartDownload(t)
    \/ \E t \in Futures : FetchOk(t)
    \/ \E t \in Futures : FetchFail(t)
    \/ \E t \in Futures : OpenOk(t)
    \/ \E t \in Futures : OpenFail(t)
    \/ \E t \in Futures : WriteOk(t)
    \/ \E t \in Futures : WriteFail(t)
    \/ Result
    \/ Shutdown
    \/ ReadEnd
    \/ Report

Spec == Init /\ [][Next]_vars

\* --------------------------------------------------- crawl, scheduled
\* A step of the main process, of the executor's manager thread or of a
\* worker process: every step of crawl but the passing of time.
Step ==
    \/ ReadStart
    \/ PageFetchOk
    \/ PageFetchFail
    \/ Submit
    \/ \E t \in Futures : Prefetch(t)
    \/ \E t \in Futures : StartDownload(t)
    \/ \E t \in Futures : FetchOk(t)
    \/ \E t \in Futures : FetchFail(t)
    \/ \E t \in Futures : OpenOk(t)
    \/ \E t \in Futures : OpenFail(t)
    \/ \E t \in Futures : WriteOk(t)
    \/ \E t \in Futures : WriteFail(t)
    \/ Result
    \/ Shutdown
    \/ ReadEnd
    \/ Report

\* The processes and threads of a crawl are scheduled by the operating
\* system: while one of them can take a step, one of them does.  No step
\* can be taken twice, so this is all the scheduling has to promise for
\* every step that stays possible to be taken in the end.  The clock is
\* under no such obligation.
Fairness == WF_vars(Step)

SpecFair == Init /\ [][Next]_vars /\ Fairness

\* ------------------------------------------- crawl with a hung download
\* requests.get is called without a timeout (line 90): the GET of one
\* future, should crawl come to submit it, never returns.
InitHang ==
    /\ base = BaseUrl
    /\ cand = RefX
    /\ resolved = <<>>
    /\ hung \in Futures
    /\ page \in CrawlPages
    /\ file_types \in CrawlFileTypes
    /\ cpus \in 1..MaxP
    /\ gen = [g \in Gens |-> GenNew]
    /\ outs = [g \in Gens |-> <<>>]
    /\ pc = "l114"
    /\ tasks = <<>>
    /\ next_result = 1
    /\ files = <<>>
    /\ exc = ""
    /\ store \in InitialStores
    /\ now = 0
    /\ start = 0
    /\ end = 0
    /\ report = <<>>

SpecHang == InitHang /\ [][Next]_vars /\ Fairness

\* ---------------------------------------------------- resolve_url alone
Schemes == {"https", "http"}

\* 'https://s/p/', 'https://s/', 'http://s/p/', 'http://s/'.
Bases == {Base(s, "s", d) : s \in Schemes, d \in {<<>>, <<"p">>}}

\* The references 'x.jpg', 'd/x.jpg', '/x.jpg', '/d/x.jpg', '//o/x.jpg',
\* '//o/d/x.jpg', and each of them behind 'https:' and behind 'ftp:'.
Cands ==
    {c \in [scheme : {"", "https", "ftp"}, host : {"", "o"}, rooted : BOOLEAN,
            path : {<<"x.jpg">>, <<"d", "x.jpg">>}, ext : {"jpg"}] :
        c.host # "" => c.rooted}

InitResolve ==
    /\ base \in Bases
    /\ cand \in Cands
    /\ resolved = <<>>
    /\ hung = 0
    /\ page = <<>>
    /\ file_types = <<>>
    /\ cpus = 1
    /\ gen = [g \in Gens |-> GenNew]
    /\ outs = [g \in Gens |-> <<>>]
    /\ pc = "idle"
    /\ tasks = <<>>
    /\ next_result = 1
    /\ files = <<>>
    /\ exc = ""
    /\ store = {}
    /\ now = 0
    /\ start = 0
    /\ end = 0
    /\ report = <<>>

\* One call resolve_url(base, cand).
Resolve ==
    /\ resolved = <<>>
    /\ resolved' = <<ResolveUrl(base, cand)>>
    /\ UNCHANGED <<base, cand, hung, page, file_types, gen, outs>>
    /\ UNCHANGED crawlVars

NextResolve == Resolve

SpecResolve == InitResolve /\ [][NextResolve]_vars

\* ================================================================ claims
Terminated    == pc \in {"done", "raised"}
PageFetched   == exc \notin {"SystemExit", "ConnectionError"}
OkTasks       == {t \in DOMAIN tasks : tasks[t].st = "ok"}
NoneTasks     == {t \in DOMAIN tasks : tasks[t].st = "none"}
RaisedTasks   == {t \in DOMAIN tasks : tasks[t].st = "raised"}
FilesNamed(n) == {f \in store : f.name = n}

\* C1: in a crawl whose page fetch succeeded, as many downloads are
\* dispatched as the extractor yielded links, and when crawl has ended every
\* dispatched download has produced an outcome that map's iterator has
\* consumed (an exception counted as an outcome here): none is lost.
C1_EveryOutcomeConsumed ==
    /\ Len(tasks) = Len(outs[1])
    /\ \A t \in DOMAIN tasks : tasks[t].url = outs[1][t].url
    /\ (Terminated /\ PageFetched) =>
          \A t \in DOMAIN tasks :
             /\ tasks[t].st \in {"ok", "none", "raised"}
             /\ t < next_result

\* C2: the byte total that crawl reports is the sum of the byte counts of
\* the downloads that succeeded.
C2_TotalBytesIsSumOfSuccesses ==
    report # <<>> =>
       report[1].bytes =
          SumSeq([t \in DOMAIN tasks |->
                     IF tasks[t].st = "ok" THEN Len(Body(tasks[t].url)) ELSE 0])

\* C3: the list built on line 118 holds one entry per successful download
\* consumed so far, and when every other download failed its fetch the count
\* that crawl reports is K, the number of successful downloads of the N.
C3_FilesDownloadedIsK ==
    /\ Len(files) = Cardinality({t \in OkTasks : t < next_result})
    /\ pc \in {"l119", "l121", "done"} =>
          /\ OkTasks \cup NoneTasks = DOMAIN tasks
          /\ Len(files) = Cardinality(OkTasks)
    /\ report # <<>> => report[1].files = Cardinality(OkTasks)

C3_Witness ==
    /\ report # <<>>
    /\ Len(tasks) = 2
    /\ report[1].files = 1
    /\ tasks[1].st = "none"
    /\ cpus = 2

\* C4: at no instant are more than cpus downloads started and not yet
\* completed.
C4_AtMostPInFlight == Cardinality(Running(tasks)) <= cpus

C4_Witness ==
    /\ Len(tasks) > cpus
    /\ Cardinality(Running(tasks)) = cpus
    /\ Queued(tasks) # {}

\* C5: when some downloads failed their fetch and no download failed in any
\* other way, every download has run, crawl has raised nothing and its
\* report counts exactly the successful downloads.
C5_FetchFailuresNeverFatal ==
    (Terminated /\ NoneTasks # {} /\ OkTasks \cup NoneTasks = DOMAIN tasks) =>
       /\ pc = "done"
       /\ report # <<>>
       /\ report[1].files = Cardinality(OkTasks)

\* C6: a download whose local write fails is recovered as a per-url failure:
\* no download ends by raising and no OSError leaves crawl.
C6_WriteFailureIsRecovered ==
    /\ RaisedTasks = {}
    /\ exc # "OSError"

\* C7: a failed page fetch ends crawl with nothing dispatched and nothing
\* reported, and a fetched page that yields no link ends crawl normally
\* with a report of zero files.
C7_FatalPageFetchVersusZeroLinks ==
    /\ ~PageFetched => (tasks = <<>> /\ report = <<>> /\ pc \in {"shutdown", "raised"})
    /\ (Terminated /\ PageFetched /\ tasks = <<>>) =>
          /\ pc = "done"
          /\ report # <<>>
          /\ report[1].files = 0

\* C8: a download that returned a path has written exactly one file, the
\* one named by its url, and exactly one file of that name exists; a
\* download that returned None has written nothing.
C8_OneFileOnSuccessNoneOnFailure ==
    \A t \in DOMAIN tasks :
       /\ tasks[t].st = "ok" =>
             /\ tasks[t].wrote = {Basename(tasks[t].url)}
             /\ Cardinality(FilesNamed(Basename(tasks[t].url))) = 1
       /\ tasks[t].st = "none" => tasks[t].wrote = {}

C8_Witness ==
    /\ Len(tasks) = 2
    /\ tasks[1].st = "none"
    /\ tasks[2].st = "ok"
    /\ Basename(tasks[1].url) \notin Names(store)

\* C9: a step of a download of a url that an earlier download has already
\* downloaded with success leaves the set of file names as it was, with
\* exactly one file of the url's name.
C9_SecondDownloadOverwrites ==
    [][\A t \in DOMAIN tasks :
          (/\ t \in DOMAIN tasks'
           /\ tasks'[t] # tasks[t]
           /\ \E s \in OkTasks : s # t /\ tasks[s].url = tasks[t].url)
          => /\ Names(store') = Names(store)
             /\ Cardinality({f \in store' : f.name = Basename(tasks[t].url)}) = 1]_vars

C9_Witness ==
    /\ Len(tasks) = 2
    /\ tasks[1].url = tasks[2].url
    /\ tasks[1].st = "ok"
    /\ tasks[2].st = "ok"
    /\ Cardinality(store) = 1

\* C10: a generator yields in the order of the file types, then of the
\* patterns of a file type, then of the lines of the page; and of two
\* generators over the same page and file types, what one has yielded is a
\* prefix of what the other has, the two being equal when both are exhausted.
YieldBefore(a, b) ==
    \/ a.ft < b.ft
    \/ a.ft = b.ft /\ a.rx < b.rx
    \/ a.ft = b.ft /\ a.rx = b.rx /\ a.line < b.line

C10_DeterministicOrder ==
    /\ \A g \in Gens : \A i, j \in DOMAIN outs[g] :
          i < j => YieldBefore(outs[g][i], outs[g][j])
    /\ \A g, h \in Gens :
          Len(outs[g]) <= Len(outs[h]) => outs[g] = SubSeq(outs[h], 1, Len(outs[g]))
    /\ (\A g \in Gens : gen[g].st = "end") => outs[1] = outs[2]

C10_Witness ==
    /\ \A g \in Gens : gen[g].st = "end"
    /\ Len(outs[1]) = 3
    /\ \E i, j \in DOMAIN outs[1] :
          /\ outs[1][i].ft = outs[1][j].ft
          /\ outs[1][i].rx = outs[1][j].rx
          /\ outs[1][i].line < outs[1][j].line
    /\ \E i, j \in DOMAIN outs[1] :
          /\ i < j
          /\ outs[1][i].rx < outs[1][j].rx
          /\ outs[1][i].line > outs[1][j].line

\* The matches of the page, one for each position of file_types, pattern of
\* that file type and line on which the pattern matches.
MatchTriples ==
    {tr \in (DOMAIN file_types) \X (1..2) \X (DOMAIN page) :
        /\ tr[2] <= Len(FILE_REGEX[file_types[tr[1]]])
        /\ LineMatch(FILE_REGEX[file_types[tr[1]]][tr[2]], page[tr[3]]) # 0}

CapturedRef(tr) ==
    LET line == page[tr[3]]
    IN  line[LineMatch(FILE_REGEX[file_types[tr[1]]][tr[2]], line)].ref

\* C11: an exhausted extractor has yielded exactly one url for each (file
\* type position, pattern, match): as many urls as there are matches, each
\* the resolved reference of its match, with no de-duplication, so a url
\* that is matched twice is yielded twice.
C11_OneYieldPerMatch ==
    \A g \in Gens :
       gen[g].st = "end" =>
          /\ Len(outs[g]) = Cardinality(MatchTriples)
          /\ {<<outs[g][i].ft, outs[g][i].rx, outs[g][i].line>> :
                 i \in DOMAIN outs[g]} = MatchTriples
          /\ \A i \in DOMAIN outs[g] :
                outs[g][i].url =
                   ResolveUrl(BaseUrl, CapturedRef(<<outs[g][i].ft,
                                  outs[g][i].rx, outs[g][i].line>>))

C11_Witness ==
    /\ gen[1].st = "end"
    /\ file_types = <<"jpg">>
    /\ \E i, j \in DOMAIN outs[1] :
          /\ i < j
          /\ outs[1][i].url = outs[1][j].url
          /\ outs[1][i].rx = outs[1][j].rx

\* C12 as the specification states it: a reference without a scheme resolves
\* to a url with the scheme and the authority of the base, and a reference
\* with a scheme resolves to itself.
C12_RelativeGetsBaseAbsoluteUnchanged ==
    resolved # <<>> =>
       IF cand.scheme = ""
       THEN /\ resolved[1].scheme = base.scheme
            /\ resolved[1].host = base.host
       ELSE resolved[1] = Url(cand.scheme, cand.host, cand.path)

\* C12, amended: a reference with neither scheme nor authority resolves to
\* a url with the scheme and the authority of the base; one with an
\* authority but no scheme ('//o/x.jpg') to the base's scheme with its own
\* authority and path; one with a scheme and an authority to its own
\* scheme, authority and path; one with a scheme and no authority
\* ('https:x.jpg') to itself when the scheme is not the base's and else as
\* if it had no scheme.
C12_ResolveByParts ==
    resolved # <<>> =>
       /\ (cand.scheme = "" /\ cand.host = "") =>
             /\ resolved[1].scheme = base.scheme
             /\ resolved[1].host = base.host
       /\ (cand.scheme = "" /\ cand.host # "") =>
             resolved[1] = Url(base.scheme, cand.host, cand.path)
       /\ (cand.scheme # "" /\ cand.host # "") =>
             resolved[1] = Url(cand.scheme, cand.host, cand.path)
       /\ (cand.scheme # "" /\ cand.host = "") =>
             IF cand.scheme # base.scheme
             THEN resolved[1] = Url(cand.scheme, cand.host, cand.path)
             ELSE /\ resolved[1].scheme = base.scheme
                  /\ resolved[1].host = base.host

C12_Witness ==
    /\ resolved # <<>>
    /\ cand.scheme = ""
    /\ cand.host = "o"
    /\ base.host = "s"
    /\ resolved[1].host = "o"
    /\ resolved[1].scheme = base.scheme
\* The references of the page that belong to a requested file type, counted
\* tag by tag.
RequestedRefs ==
    LET wanted == {file_types[i] : i \in DOMAIN file_types}
        inLine(k) == Cardinality({j \in DOMAIN page[k] :
                                     page[k][j].ref.ext \in wanted})
    IN  SumSeq([k \in DOMAIN page |-> inLine(k)])

\* C13: once the extractor of a crawl is exhausted, as many downloads have
\* been dispatched as the page holds references of the requested file
\* types, wherever in the page text (on which lines) the references stand.
C13_OneDownloadPerReference ==
    (pc # "idle" /\ PageFetched /\ gen[1].st = "end") =>
       Len(tasks) = RequestedRefs
\* The files that some download of this crawl has opened.
Written == {f \in store : \E t \in DOMAIN tasks : f.name \in tasks[t].wrote}

\* C14: the downloads share no mutable state: when crawl has printed its
\* report, every file a download has written holds exactly the whole body
\* of one resource that was fetched under that name, whatever the order in
\* which the workers took their open and write steps.
C14_EveryFileIsOneWholeBody ==
    pc = "done" =>
       \A f \in Written :
          \E t \in OkTasks :
             /\ Basename(tasks[t].url) = f.name
             /\ f.content = Body(tasks[t].url)
\* Line 119 has been executed.
EndRead == pc \in {"l121", "done"} \/ exc = "ZeroDivisionError"

AllCollected ==
    /\ next_result = Len(tasks) + 1
    /\ \A t \in DOMAIN tasks : tasks[t].st \in {"ok", "none"}

\* C15 as the specification states it: the page is fetched before anything
\* is dispatched, the timed interval starts only when the page has been
\* fetched (it does not cover the page fetch), and it ends only when every
\* outcome has been collected.
C15_TimerStartsAfterPageFetch ==
    pc # "idle" =>
       /\ tasks # <<>> => gen[1].st # "new"
       /\ pc # "l114" => gen[1].st # "new"
       /\ EndRead => AllCollected

\* C15, amended: the page is fetched before anything is dispatched, but
\* after the first clock reading, so the timed interval covers the page
\* fetch: the elapsed time is all the time the clock has moved since crawl
\* was entered; the interval ends only when every outcome has been
\* collected.
C15_TimerCoversPageFetch ==
    pc # "idle" =>
       /\ tasks # <<>> => gen[1].st # "new"
       /\ gen[1].st # "new" => pc # "l114"
       /\ EndRead => (AllCollected /\ end - start = now)

C15_Witness ==
    /\ pc = "map"
    /\ gen[1].st = "new"
    /\ tasks = <<>>
    /\ now > start
\* The download has been handed to the call queue / to a worker process.
Handed(t)  == tasks[t].st \notin {"pending", "cancelled"}
Started(t) == tasks[t].st \notin {"pending", "queued", "cancelled"}

\* C16: the downloads are submitted in the order in which the extractor
\* yields their urls (future i is the i-th yield), and they are handed to
\* the pool and started in that order, for every number of workers; the
\* order in which they complete is not constrained.
C16_DispatchInYieldOrder ==
    pc # "idle" =>
       /\ Len(tasks) = Len(outs[1])
       /\ \A t \in DOMAIN tasks : tasks[t].url = outs[1][t].url
       /\ \A i, j \in DOMAIN tasks :
             i < j => /\ Handed(j) => Handed(i)
                      /\ Started(j) => Started(i)

\* The second download has completed while the first is still fetching.
C16_Witness ==
    /\ Len(tasks) = 2
    /\ tasks[1].url # tasks[2].url
    /\ tasks[1].st = "fetch"
    /\ tasks[2].st = "ok"
\* The download has come to its end: ok, none, raised or cancelled.
Ended(t) == t \in DOMAIN tasks /\ tasks[t].st \in Finished

\* C17 as the specification states it: when one download never completes,
\* every other dispatched download still comes to its end (an outcome, or
\* its cancellation by map), for every number of workers.
C17_HungWorkerStallsNoOther ==
    \A t \in Futures :
       [](( /\ t \in DOMAIN tasks
            /\ t # hung)
          => <>Ended(t))

\* C17, amended: when one download never completes and the pool has at
\* least two workers, every other dispatched download still comes to its
\* end (an outcome, or its cancellation by map).
C17_HungWorkerStallsNoOtherOfTwo ==
    \A t \in Futures :
       [](( /\ t \in DOMAIN tasks
            /\ t # hung
            /\ cpus >= 2)
          => <>Ended(t))

\* The second download has its outcome while the first hangs in its GET.
C17_Witness ==
    /\ cpus = 2
    /\ hung = 1
    /\ Len(tasks) = 2
    /\ tasks[1].st = "fetch"
    /\ tasks[2].st \in {"ok", "none"}
\* The matches a generator has computed: those it has yielded and those it
\* holds for its next yields.
Computed(g) == Len(outs[g]) + Len(gen[g].ms)

\* The matches of the patterns up to pattern rx of file type position ft.
UpTo(ft, rx) ==
    {tr \in MatchTriples : tr[1] < ft \/ (tr[1] = ft /\ tr[2] <= rx)}

\* C18 as the specification states it: when the consumer has received a
\* url, the extractor has computed no match that follows it, and unless the
\* page has one match only, the list of all matches has not been made when
\* the first url is handed out.
C18_NoMatchComputedAhead ==
    \A g \in Gens :
       outs[g] # <<>> =>
          /\ gen[g].ms = <<>>
          /\ (Len(outs[g]) = 1 /\ Cardinality(MatchTriples) > 1) =>
                Computed(g) < Cardinality(MatchTriples)

\* C18, amended: the extractor is lazy pattern by pattern.  When the
\* consumer has received a url, the extractor has computed all matches of
\* the pattern that url came from and of the patterns before it, and no
\* match of a later pattern or file type.
C18_LazyPatternByPattern ==
    \A g \in Gens :
       outs[g] # <<>> =>
          LET last == outs[g][Len(outs[g])]
          IN  Computed(g) = Cardinality(UpTo(last.ft, last.rx))

\* The first url has been handed out, the other match of its pattern is
\* computed and waiting, and a later pattern's match is not computed yet.
C18_Witness ==
    /\ Len(outs[1]) = 1
    /\ gen[1].ms # <<>>
    /\ Computed(1) < Cardinality(MatchTriples)
\* C19: a crawl whose page fetch succeeded and whose downloads all returned
\* prints its report also when the two clock readings are equal: the
\* bandwidth is defined for an elapsed time of zero.
C19_ZeroElapsedStillReports ==
    (/\ Terminated
     /\ PageFetched
     /\ exc # "OSError"
     /\ end = start) => report # <<>>

\* C20: a crawl whose page fetch succeeds and whose downloads all return a
\* path or None starts every download and prints its report in the end.
C20_EveryDownloadStartsAndCrawlReports ==
    <>(\/ ~PageFetched
       \/ RaisedTasks # {}
       \/ /\ report # <<>>
          /\ \A t \in DOMAIN tasks : Started(t))
====
